---- MODULE Spec2Model ----
(***************************************************************************)
(* A model of the MVola API wrapper (src/main.ts): the request router      *)
(* `fetch`, the authenticator `authenticateMvola` and the payment          *)
(* initiator `initiateMvolaPayment`.  Every inbound request is one         *)
(* invocation of `fetch`; invocations interleave at their await points     *)
(* (the token call, the read of the request body, the merchant-pay call).  *)
(***************************************************************************)
EXTENDS Naturals, Sequences, FiniteSets, TLC

\* Number of invocations of the handler that the runtime runs concurrently.
NumReqs == 2

Reqs == 1..NumReqs

(***************************************************************************)
(* JSON values.  Every value has the same record shape, the tag t says     *)
(* which field carries it.  "undefined" is JavaScript's undefined, the     *)
(* value of a property that is absent.                                     *)
(***************************************************************************)
EmptyObj == [k \in {} |-> 0]

JV(t, s, n, a, o) == [t |-> t, s |-> s, n |-> n, a |-> a, o |-> o]

JNull == JV("null", "", 0, <<>>, EmptyObj)

Undefined == JV("undefined", "", 0, <<>>, EmptyObj)

JStr(s) == JV("str", s, 0, <<>>, EmptyObj)

JNum(n) == JV("num", "", n, <<>>, EmptyObj)

JTrue == JV("bool", "", 1, <<>>, EmptyObj)

JArr(a) == JV("arr", "", 0, a, EmptyObj)

JObj(o) == JV("obj", "", 0, <<>>, o)

\* obj.k in JavaScript: undefined when the property is absent.
Get(o, k) == IF k \in DOMAIN o THEN o[k] ELSE Undefined

\* The outcome of an evaluation that may throw.
Ok(v) == [ok |-> TRUE, val |-> v, err |-> ""]

Throw(e) == [ok |-> FALSE, val |-> JNull, err |-> e]

(***************************************************************************)
(* JSON texts: the bytes of a body.  A text either is valid JSON for the   *)
(* value v, or is not JSON at all.                                         *)
(***************************************************************************)
JsonText(v) == [valid |-> TRUE, v |-> v]

BadText == [valid |-> FALSE, v |-> JNull]

\* Request.json() / Response.json(): a SyntaxError on a body that is not JSON.
JsonParse(t) == IF t.valid THEN Ok(t.v) ELSE Throw("SyntaxError")

\* JSON.stringify of an object: properties whose value is undefined are left out.
JsonStringify(v) ==
  IF v.t = "obj"
  THEN JsonText(JObj([k \in {j \in DOMAIN v.o : v.o[j].t # "undefined"} |-> v.o[k]]))
  ELSE JsonText(v)

(***************************************************************************)
(* Configuration (MVOLA_CONFIG).                                           *)
(***************************************************************************)
MVOLA_CONFIG ==
  [BASE_URL |-> "https://devapi.mvola.mg",
   TOKEN_ENDPOINT |-> "/token",
   MERCHANT_PAY_ENDPOINT |-> "/mvola/mm/transactions/type/merchantpay/1.0.0/",
   CONSUMER_KEY |-> "key",
   CONSUMER_SECRET |-> "secret"]

(***************************************************************************)
(* Responses.                                                              *)
(***************************************************************************)
corsHeaders ==
  [h \in {"Access-Control-Allow-Origin", "Access-Control-Allow-Methods",
          "Access-Control-Allow-Headers"} |->
     CASE h = "Access-Control-Allow-Origin" -> "*"
       [] h = "Access-Control-Allow-Methods" -> "GET, POST, OPTIONS"
       [] OTHER -> "Content-Type, Authorization"]

\* { ...a, ...b }: the properties of b win.
Spread(a, b) ==
  [h \in DOMAIN a \cup DOMAIN b |-> IF h \in DOMAIN b THEN b[h] ELSE a[h]]

ContentType(ct) == [h \in {"Content-Type"} |-> ct]

NullBody == [kind |-> "null", text |-> "", json |-> BadText]

TextBody(s) == [kind |-> "text", text |-> s, json |-> BadText]

JsonBody(t) == [kind |-> "json", text |-> "", json |-> t]

NoResponse == [status |-> 0, headers |-> EmptyObj, body |-> NullBody]

\* new Response(body, {status, headers}): a RangeError on a status outside
\* 200..599, a TypeError on a body given with a null-body status.
NewResponse(body, status, headers) ==
  IF status < 200 \/ status > 599 THEN Throw("RangeError")
  ELSE IF body.kind # "null" /\ status \in {204, 205, 304} THEN Throw("TypeError")
  ELSE [ok |-> TRUE, val |-> [status |-> status, headers |-> headers, body |-> body],
        err |-> ""]

\* A guard that forgets the spread of corsHeaders.
GuardResponseBare(err) ==
  NewResponse(JsonBody(JsonStringify(JObj([error |-> JStr("Internal server error"),
                                           message |-> JStr(err)]))),
              500, ContentType("application/json")).val

\* The top-level guard's response (the catch of fetch).
GuardResponse(err) ==
  NewResponse(JsonBody(JsonStringify(JObj([error |-> JStr("Internal server error"),
                                           message |-> JStr(err)]))),
              500, Spread(corsHeaders, ContentType("application/json"))).val

\* try { ... } catch: a response the dispatch built, or the guard's response
\* when the dispatch threw.
Catch(x) == IF x.ok THEN x.val ELSE GuardResponse(x.err)

\* The preflight response: no body, the default status.
OptionsResponse == NewResponse(NullBody, 200, corsHeaders)

RootResponse ==
  NewResponse(TextBody("MVola API Wrapper is running!"), 200,
              Spread(corsHeaders, ContentType("text/plain")))

TestResponse ==
  NewResponse(
    JsonBody(JsonStringify(JObj(
      [message |-> JStr("API is working!"),
       timestamp |-> JStr("now"),
       config |-> JObj([baseUrl |-> JStr(MVOLA_CONFIG.BASE_URL),
                        hasCredentials |->
                          IF MVOLA_CONFIG.CONSUMER_KEY # "" /\ MVOLA_CONFIG.CONSUMER_SECRET # ""
                          THEN JTrue ELSE JV("bool", "", 0, <<>>, EmptyObj)])]))),
    200, Spread(corsHeaders, ContentType("application/json")))

\* The same response without its status: 200 by default.
MethodNotAllowedNoStatus ==
  NewResponse(TextBody("Method not allowed"), 200, corsHeaders)

MethodNotAllowedResponse ==
  NewResponse(TextBody("Method not allowed"), 405, corsHeaders)

\* The same response without its status: 200 by default.
NotFoundNoStatus == NewResponse(TextBody("Not Found"), 200, corsHeaders)

NotFoundResponse == NewResponse(TextBody("Not Found"), 404, corsHeaders)

AuthFailedResponse ==
  NewResponse(JsonBody(JsonStringify(JObj([error |-> JStr("Authentication failed")]))),
              401, Spread(corsHeaders, ContentType("application/json")))

\* An acknowledgement sent as 202 Accepted.
WebhookResponseAccepted ==
  NewResponse(JsonBody(JsonStringify(JObj([received |-> JTrue]))),
              202, Spread(corsHeaders, ContentType("application/json")))

WebhookResponse ==
  NewResponse(JsonBody(JsonStringify(JObj([received |-> JTrue]))),
              200, Spread(corsHeaders, ContentType("application/json")))

(***************************************************************************)
(* JavaScript's view of a value.                                           *)
(***************************************************************************)
\* !v is false exactly on a truthy value.
Truthy(v) ==
  CASE v.t \in {"null", "undefined"} -> FALSE
    [] v.t = "str" -> v.s # ""
    [] v.t \in {"num", "bool"} -> v.n # 0
    [] OTHER -> TRUE

\* v.k on a value that is neither null nor undefined.
PropertyOf(v, k) == IF v.t = "obj" THEN Get(v.o, k) ELSE Undefined

\* `${v}` in a template literal.
Render(v) ==
  CASE v.t = "str" -> v.s
    [] v.t = "undefined" -> "undefined"
    [] v.t = "null" -> "null"
    [] OTHER -> "[value]"

\* { success: true, token: authResult.access_token, expires_in: authResult.expires_in }
AuthSuccessResponse(authResult) ==
  NewResponse(
    JsonBody(JsonStringify(JObj(
      [success |-> JTrue,
       token |-> PropertyOf(authResult, "access_token"),
       expires_in |-> PropertyOf(authResult, "expires_in")]))),
    200, Spread(corsHeaders, ContentType("application/json")))

(***************************************************************************)
(* The authenticator (authenticateMvola).                                  *)
(***************************************************************************)
\* The call to the token endpoint.
TokenRequest ==
  [url |-> <<MVOLA_CONFIG.BASE_URL, MVOLA_CONFIG.TOKEN_ENDPOINT>>,
   method |-> "POST",
   Authorization |-> [scheme |-> "Basic",
                      credentials |-> <<MVOLA_CONFIG.CONSUMER_KEY, ":",
                                        MVOLA_CONFIG.CONSUMER_SECRET>>],
   ContentType |-> "application/x-www-form-urlencoded",
   CacheControl |-> "no-cache",
   body |-> [grant_type |-> "client_credentials", scope |-> "EXT_INT_MVOLA_SCOPE"]]

\* Response.ok
ResponseOk(status) == status >= 200 /\ status <= 299

\* An authenticator that does not look at response.ok.
AuthenticateIgnoringStatus(reply) ==
  IF ~reply.net THEN JNull
  ELSE LET parsed == JsonParse(reply.body)
       IN  IF parsed.ok THEN parsed.val ELSE JNull

\* What authenticateMvola returns on a reply of the token endpoint: null on a
\* transport error, on a status that is not a success and on a body that is not
\* JSON, the parsed body otherwise.
AuthenticateResult(reply) ==
  IF ~reply.net THEN JNull
  ELSE IF ~ResponseOk(reply.status) THEN JNull
  ELSE LET parsed == JsonParse(reply.body)
       IN  IF parsed.ok THEN parsed.val ELSE JNull

(***************************************************************************)
(* The payment initiator (initiateMvolaPayment).                           *)
(***************************************************************************)
\* paymentData.debitParty[0].value: a TypeError when debitParty is absent or
\* has no first entry.
DebitAccount(paymentData) ==
  LET d == PropertyOf(paymentData, "debitParty")
      first == CASE d.t = "arr" -> IF Len(d.a) = 0 THEN Undefined ELSE d.a[1]
                 [] d.t = "str" -> IF d.s = "" THEN Undefined ELSE JStr("c")
                 [] OTHER -> Undefined
  IN  IF d.t \in {"undefined", "null"} THEN Throw("TypeError")
      ELSE IF first.t \in {"undefined", "null"} THEN Throw("TypeError")
      ELSE Ok(PropertyOf(first, "value"))

\* The headers of the merchant-pay call.
PaymentHeaders(account, accessToken) ==
  [Authorization |-> [scheme |-> "Bearer", token |-> Render(accessToken)],
   Version |-> "1.0",
   XCorrelationID |-> "uuid",
   UserLanguage |-> "mg",
   UserAccountIdentifier |-> <<"msisdn;", Render(account)>>,
   partnerName |-> "Test Partner",
   ContentType |-> "application/json",
   XCallbackURL |-> "",
   CacheControl |-> "no-cache"]

\* The call to the merchant-pay endpoint.
PaymentCall(paymentData, account, accessToken) ==
  [url |-> <<MVOLA_CONFIG.BASE_URL, MVOLA_CONFIG.MERCHANT_PAY_ENDPOINT>>,
   method |-> "POST",
   headers |-> PaymentHeaders(account, accessToken),
   body |-> JsonStringify(paymentData)]

\* { status: 500, data: { error: error.message } }
SynthesizedResult(err) ==
  JObj([status |-> JNum(500), data |-> JObj([error |-> JStr(err)])])

\* What initiateMvolaPayment returns on a reply of the merchant-pay endpoint.
PaymentResult(reply) ==
  IF ~reply.net THEN SynthesizedResult("fetch failed")
  ELSE LET parsed == JsonParse(reply.body)
       IN  IF parsed.ok
           THEN JObj([status |-> JNum(reply.status), data |-> parsed.val])
           ELSE SynthesizedResult(parsed.err)

\* The same response without its status: 200 by default.
PaymentResponseNoStatus(paymentResult) ==
  NewResponse(JsonBody(JsonStringify(paymentResult)), 200,
              Spread(corsHeaders, ContentType("application/json")))

\* new Response(JSON.stringify(paymentResult), { status: paymentResult.status, ... })
PaymentResponse(paymentResult) ==
  NewResponse(JsonBody(JsonStringify(paymentResult)), paymentResult.o.status.n,
              Spread(corsHeaders, ContentType("application/json")))

(***************************************************************************)
(* The /payment handler between the read of the body and the call.         *)
(***************************************************************************)
CorrelationFields ==
  {"requestDate", "requestingOrganisationTransactionReference",
   "originalTransactionReference"}

\* An override that only fills in the correlation fields the caller left out.
OverrideIfAbsent(v) ==
  IF v.t = "arr" THEN Ok(v)
  ELSE IF v.t # "obj" THEN Throw("TypeError")
  ELSE Ok(JObj([k \in DOMAIN v.o \cup CorrelationFields |->
                  IF k \in DOMAIN v.o THEN v.o[k] ELSE JStr("")]))

\* paymentRequest.requestDate = ""; ... : a TypeError when the parsed body is
\* null or a primitive; on an array the assignments are lost when it is
\* serialized.
OverrideCorrelation(v) ==
  IF v.t = "arr" THEN Ok(v)
  ELSE IF v.t # "obj" THEN Throw("TypeError")
  ELSE Ok(JObj([k \in DOMAIN v.o \cup CorrelationFields |->
                  IF k \in CorrelationFields THEN JStr("") ELSE v.o[k]]))

(***************************************************************************)
(* Inputs: what a caller and the provider may send.                        *)
(***************************************************************************)
Methods == {"GET", "POST", "OPTIONS", "DELETE"}

Routes == {"/", "/test", "/auth", "/payment", "/webhook"}

Paths == Routes \cup {"/status"}

Party(msisdn) == JArr(<<JObj([key |-> JStr("msisdn"), value |-> JStr(msisdn)])>>)

PlainBody ==
  [amount |-> JStr("1000"), currency |-> JStr("Ar"), descriptionText |-> JStr("test"),
   debitParty |-> Party("0340000000"), creditParty |-> Party("0350000000"),
   metadata |-> JArr(<<>>)]

RefsBody ==
  Spread(PlainBody,
         [requestDate |-> JStr("2024-01-01T00:00:00.000Z"),
          requestingOrganisationTransactionReference |-> JStr("REF1"),
          originalTransactionReference |-> JStr("ORIG1")])

EmptyDebitBody == [amount |-> JStr("1000"), debitParty |-> JArr(<<>>)]

\* The bodies a caller may post: not JSON, null, {}, a payment request with an
\* empty debit party, a well-formed one without and with correlation fields.
RequestBodies ==
  {BadText, JsonText(JNull), JsonText(JObj(EmptyObj)), JsonText(JObj(EmptyDebitBody)),
   JsonText(JObj(PlainBody)), JsonText(JObj(RefsBody))}

Tokens == {"abc123", "xyz789"}

TokenBody(tok) ==
  JsonText(JObj([access_token |-> JStr(tok), scope |-> JStr("EXT_INT_MVOLA_SCOPE"),
                 token_type |-> JStr("Bearer"), expires_in |-> JNum(3600)]))

NetworkError == [net |-> FALSE, status |-> 0, body |-> BadText]

HttpReply(status, body) == [net |-> TRUE, status |-> status, body |-> body]

\* The replies of the token endpoint: a transport error, a refusal, a success
\* whose body is not JSON, is null, or carries a token.
AuthReplies ==
  {NetworkError,
   HttpReply(401, JsonText(JObj([error |-> JStr("invalid_client")]))),
   HttpReply(200, BadText),
   HttpReply(200, JsonText(JNull))}
  \cup {HttpReply(200, TokenBody(tok)) : tok \in Tokens}

\* The replies of the merchant-pay endpoint: a transport error, an accepted and
\* a refused transaction, a body that is not JSON.
PayReplies ==
  {NetworkError,
   HttpReply(200, JsonText(JObj([transactionReference |-> JStr("TX1")]))),
   HttpReply(400, JsonText(JObj([errorCategory |-> JStr("businessRule")]))),
   HttpReply(502, BadText)}

(***************************************************************************)
(* State.  Everything is local to one invocation r of the handler.         *)
(***************************************************************************)
VARIABLES
  pc,            \* where invocation r stands
  method,        \* request.method
  path,          \* url.pathname
  bodyRead,      \* the request bodies read by request.json(), in order
  auth,          \* the local auth of the /payment case (null until set)
  tokenCalls,    \* the calls r made to the token endpoint
  tokenReplies,  \* the replies r got from it
  payCalls,      \* the calls r made to the merchant-pay endpoint
  payReplies,    \* the replies r got from it
  response       \* the Response r returned

vars ==
  <<pc, method, path, bodyRead, auth, tokenCalls, tokenReplies, payCalls,
    payReplies, response>>

Init ==
  /\ pc = [r \in Reqs |-> "idle"]
  /\ method = [r \in Reqs |-> ""]
  /\ path = [r \in Reqs |-> ""]
  /\ bodyRead = [r \in Reqs |-> <<>>]
  /\ auth = [r \in Reqs |-> JNull]
  /\ tokenCalls = [r \in Reqs |-> <<>>]
  /\ tokenReplies = [r \in Reqs |-> <<>>]
  /\ payCalls = [r \in Reqs |-> <<>>]
  /\ payReplies = [r \in Reqs |-> <<>>]
  /\ response = [r \in Reqs |-> NoResponse]

\* The runtime hands request (m, p) to invocation r.
Start(r, m, p) ==
  /\ pc[r] = "idle"
  /\ method' = [method EXCEPT ![r] = m]
  /\ path' = [path EXCEPT ![r] = p]

\* Invocation r returns resp.
Return(r, resp) ==
  /\ pc' = [pc EXCEPT ![r] = "done"]
  /\ response' = [response EXCEPT ![r] = resp]

\* A router without the preflight short-circuit.
IsPreflightNever(m) == FALSE

\* if (request.method === "OPTIONS")
IsPreflight(m) == m = "OPTIONS"

\* A token kept across invocations: that of some invocation that authenticated.
CachedAccessToken(r) ==
  PropertyOf(auth[CHOOSE q \in Reqs : Truthy(auth[q])], "access_token")

\* The access token the /payment case passes to initiateMvolaPayment.
AccessTokenOf(r) == PropertyOf(auth[r], "access_token")

\* An initiator that builds its headers before its try: the TypeError escapes.
PrepareCallUnguarded(paymentData, accessToken) ==
  LET account == DebitAccount(paymentData)
  IN  IF account.ok
      THEN [sent |-> TRUE, thrown |-> FALSE, err |-> "", result |-> JNull,
            call |-> <<PaymentCall(paymentData, account.val, accessToken)>>]
      ELSE [sent |-> FALSE, thrown |-> TRUE, err |-> account.err,
            result |-> JNull, call |-> <<>>]

\* initiateMvolaPayment up to its call of the merchant-pay endpoint: the
\* headers are built inside its try, so a debit party without a first entry
\* ends in its own catch, with the synthesized result and no call.
PrepareCall(paymentData, accessToken) ==
  LET account == DebitAccount(paymentData)
  IN  IF account.ok
      THEN [sent |-> TRUE, thrown |-> FALSE, err |-> "", result |-> JNull,
            call |-> <<PaymentCall(paymentData, account.val, accessToken)>>]
      ELSE [sent |-> FALSE, thrown |-> FALSE, err |-> "",
            result |-> SynthesizedResult(account.err), call |-> <<>>]

(***************************************************************************)
(* The router (fetch), one action per case and per resumption.             *)
(***************************************************************************)
\* OPTIONS on any path: answered before the switch, outside the try.
Preflight(r, m, p) ==
  /\ IsPreflight(m)
  /\ Start(r, m, p)
  /\ Return(r, OptionsResponse.val)
  /\ UNCHANGED <<bodyRead, auth, tokenCalls, tokenReplies, payCalls, payReplies>>

\* case "/"
Root(r, m) ==
  /\ ~IsPreflight(m)
  /\ Start(r, m, "/")
  /\ Return(r, Catch(RootResponse))
  /\ UNCHANGED <<bodyRead, auth, tokenCalls, tokenReplies, payCalls, payReplies>>

\* case "/test"
Test(r, m) ==
  /\ ~IsPreflight(m)
  /\ Start(r, m, "/test")
  /\ Return(r, Catch(TestResponse))
  /\ UNCHANGED <<bodyRead, auth, tokenCalls, tokenReplies, payCalls, payReplies>>

\* case "/auth", "/payment", "/webhook": if (request.method !== "POST")
MethodNotAllowed(r, m, p) ==
  /\ ~IsPreflight(m)
  /\ p \in {"/auth", "/payment", "/webhook"}
  /\ m # "POST"
  /\ Start(r, m, p)
  /\ Return(r, Catch(MethodNotAllowedResponse))
  /\ UNCHANGED <<bodyRead, auth, tokenCalls, tokenReplies, payCalls, payReplies>>

\* default
NotFound(r, m, p) ==
  /\ ~IsPreflight(m)
  /\ p \notin Routes
  /\ Start(r, m, p)
  /\ Return(r, Catch(NotFoundResponse))
  /\ UNCHANGED <<bodyRead, auth, tokenCalls, tokenReplies, payCalls, payReplies>>

\* POST /auth and POST /payment: await authenticateMvola(), up to its fetch.
CallToken(r, m, p) ==
  /\ ~IsPreflight(m)
  /\ p \in {"/auth", "/payment"}
  /\ m = "POST"
  /\ Start(r, m, p)
  /\ tokenCalls' = [tokenCalls EXCEPT ![r] = Append(@, TokenRequest)]
  /\ pc' = [pc EXCEPT ![r] = "authWait"]
  /\ UNCHANGED <<bodyRead, auth, tokenReplies, payCalls, payReplies, response>>

\* POST /auth resumes with the token endpoint's reply.
AuthReply(r, reply) ==
  /\ pc[r] = "authWait"
  /\ path[r] = "/auth"
  /\ tokenReplies' = [tokenReplies EXCEPT ![r] = Append(@, reply)]
  /\ LET authResult == AuthenticateResult(reply)
     IN  Return(r, Catch(IF ~Truthy(authResult) THEN AuthFailedResponse
                         ELSE AuthSuccessResponse(authResult)))
  /\ UNCHANGED <<method, path, bodyRead, auth, tokenCalls, payCalls, payReplies>>

\* POST /payment resumes with the token endpoint's reply.
PaymentAuthReply(r, reply) ==
  /\ pc[r] = "authWait"
  /\ path[r] = "/payment"
  /\ tokenReplies' = [tokenReplies EXCEPT ![r] = Append(@, reply)]
  /\ auth' = [auth EXCEPT ![r] = AuthenticateResult(reply)]
  /\ IF ~Truthy(auth'[r])
     THEN Return(r, Catch(AuthFailedResponse))
     ELSE /\ pc' = [pc EXCEPT ![r] = "readPayment"]
          /\ UNCHANGED response
  /\ UNCHANGED <<method, path, bodyRead, tokenCalls, payCalls, payReplies>>

\* POST /payment resumes with its body: request.json(), the three overrides,
\* then initiateMvolaPayment up to its fetch.
ReadPaymentBody(r, text) ==
  /\ pc[r] = "readPayment"
  /\ bodyRead' = [bodyRead EXCEPT ![r] = Append(@, text)]
  /\ LET parsed == JsonParse(text)
         paymentRequest == IF parsed.ok THEN OverrideCorrelation(parsed.val) ELSE parsed
         prepared == PrepareCall(paymentRequest.val, AccessTokenOf(r))
     IN  IF ~paymentRequest.ok
         THEN /\ Return(r, GuardResponse(paymentRequest.err))
              /\ UNCHANGED payCalls
         ELSE IF prepared.thrown
         THEN /\ Return(r, GuardResponse(prepared.err))
              /\ UNCHANGED payCalls
         ELSE IF ~prepared.sent
         THEN /\ Return(r, Catch(PaymentResponse(prepared.result)))
              /\ UNCHANGED payCalls
         ELSE /\ payCalls' = [payCalls EXCEPT ![r] = @ \o prepared.call]
              /\ pc' = [pc EXCEPT ![r] = "payWait"]
              /\ UNCHANGED response
  /\ UNCHANGED <<method, path, auth, tokenCalls, tokenReplies, payReplies>>

\* POST /payment resumes with the merchant-pay endpoint's reply.
PayReply(r, reply) ==
  /\ pc[r] = "payWait"
  /\ payReplies' = [payReplies EXCEPT ![r] = Append(@, reply)]
  /\ Return(r, Catch(PaymentResponse(PaymentResult(reply))))
  /\ UNCHANGED <<method, path, bodyRead, auth, tokenCalls, tokenReplies, payCalls>>

\* POST /webhook: await request.json()
WebhookStart(r, m) ==
  /\ ~IsPreflight(m)
  /\ m = "POST"
  /\ Start(r, m, "/webhook")
  /\ pc' = [pc EXCEPT ![r] = "readWebhook"]
  /\ UNCHANGED <<bodyRead, auth, tokenCalls, tokenReplies, payCalls, payReplies, response>>

\* POST /webhook resumes with its body.
ReadWebhookBody(r, text) ==
  /\ pc[r] = "readWebhook"
  /\ bodyRead' = [bodyRead EXCEPT ![r] = Append(@, text)]
  /\ LET webhookData == JsonParse(text)
     IN  Return(r, IF webhookData.ok THEN Catch(WebhookResponse)
                   ELSE GuardResponse(webhookData.err))
  /\ UNCHANGED <<method, path, auth, tokenCalls, tokenReplies, payCalls, payReplies>>

Next ==
  \E r \in Reqs :
    \/ \E m \in Methods, p \in Paths : Preflight(r, m, p)
    \/ \E m \in Methods : Root(r, m)
    \/ \E m \in Methods : Test(r, m)
    \/ \E m \in Methods, p \in Paths : MethodNotAllowed(r, m, p)
    \/ \E m \in Methods, p \in Paths : NotFound(r, m, p)
    \/ \E m \in Methods, p \in Paths : CallToken(r, m, p)
    \/ \E reply \in AuthReplies : AuthReply(r, reply)
    \/ \E reply \in AuthReplies : PaymentAuthReply(r, reply)
    \/ \E text \in RequestBodies : ReadPaymentBody(r, text)
    \/ \E reply \in PayReplies : PayReply(r, reply)
    \/ \E m \in Methods : WebhookStart(r, m)
    \/ \E text \in RequestBodies : ReadWebhookBody(r, text)

Spec == Init /\ [][Next]_vars

(***************************************************************************)
(* Properties.  They are stated over what an observer sees: the request,   *)
(* the calls made to and the replies got from the provider, the response.  *)
(***************************************************************************)
Done(r) == pc[r] = "done"

HasCors(resp) ==
  /\ {"Access-Control-Allow-Origin", "Access-Control-Allow-Methods",
      "Access-Control-Allow-Headers"} \subseteq DOMAIN resp.headers
  /\ resp.headers["Access-Control-Allow-Origin"] = "*"
  /\ resp.headers["Access-Control-Allow-Methods"] = "GET, POST, OPTIONS"
  /\ resp.headers["Access-Control-Allow-Headers"] = "Content-Type, Authorization"

\* The response body is the JSON object o.
BodyIs(resp, o) ==
  /\ resp.body.kind = "json"
  /\ resp.body.json.valid
  /\ resp.body.json.v.t = "obj"
  /\ resp.body.json.v.o = o

\* The token endpoint answered r with a status that is not a success.
AuthRefused(r) ==
  /\ tokenReplies[r] # <<>>
  /\ tokenReplies[r][1].net
  /\ (tokenReplies[r][1].status < 200 \/ tokenReplies[r][1].status > 299)

\* C1: when the authentication call returns a non-success status, POST /auth
\* and POST /payment answer 401 with {error: "Authentication failed"} and the
\* merchant-pay endpoint is not called for that request.
C1_AuthFailureIs401 ==
  \A r \in Reqs :
    AuthRefused(r) =>
      /\ Done(r)
      /\ response[r].status = 401
      /\ BodyIs(response[r], [error |-> JStr("Authentication failed")])
      /\ payCalls[r] = <<>>

C1_Witness ==
  \E r, q \in Reqs :
    /\ path[r] = "/auth" /\ path[q] = "/payment"
    /\ AuthRefused(r) /\ AuthRefused(q)
    /\ response[r].status = 401 /\ response[q].status = 401

\* C2 as stated: every request with a method other than POST to /auth,
\* /payment or /webhook is answered 405.
C2_Original ==
  \A r \in Reqs :
    (Done(r) /\ path[r] \in {"/auth", "/payment", "/webhook"} /\ method[r] # "POST")
      => response[r].status = 405

\* C2, amended: every request with a method other than POST and OPTIONS to
\* /auth, /payment or /webhook is answered 405, without any call to the
\* provider (OPTIONS is answered by the preflight short-circuit).
C2_NonPostIs405 ==
  \A r \in Reqs :
    (pc[r] # "idle" /\ path[r] \in {"/auth", "/payment", "/webhook"}
       /\ method[r] \notin {"POST", "OPTIONS"})
      => /\ Done(r)
         /\ response[r].status = 405
         /\ tokenCalls[r] = <<>>
         /\ payCalls[r] = <<>>

C2_Witness ==
  \E r, q \in Reqs :
    /\ method[r] = "GET" /\ path[r] = "/payment" /\ response[r].status = 405
    /\ method[q] = "DELETE" /\ path[q] = "/webhook" /\ response[q].status = 405

\* C3 as stated: every request, of any method, to a path that is not routed
\* is answered 404.
C3_Original ==
  \A r \in Reqs :
    (Done(r) /\ path[r] \notin {"/", "/test", "/auth", "/payment", "/webhook"})
      => response[r].status = 404

\* C3, amended: every request with a method other than OPTIONS to a path that
\* is not routed is answered 404.
C3_UnknownPathIs404 ==
  \A r \in Reqs :
    (pc[r] # "idle" /\ method[r] # "OPTIONS"
       /\ path[r] \notin {"/", "/test", "/auth", "/payment", "/webhook"})
      => Done(r) /\ response[r].status = 404

C3_Witness ==
  \E r, q \in Reqs :
    /\ method[r] = "POST" /\ path[r] = "/status" /\ response[r].status = 404
    /\ method[q] = "GET" /\ path[q] = "/status" /\ response[q].status = 404

\* C4: every response returned, whatever the path, the method and the outcome,
\* carries the three CORS headers with their values.
C4_CorsOnEveryResponse ==
  \A r \in Reqs : (Done(r) \/ response[r] # NoResponse) => HasCors(response[r])

\* A response of the top-level guard and a passed-through provider status.
C4_Witness ==
  \E r, q \in Reqs :
    /\ Done(r) /\ response[r].status = 500 /\ HasCors(response[r])
    /\ bodyRead[r] # <<>> /\ ~bodyRead[r][1].valid
    /\ Done(q) /\ response[q].status = 400 /\ HasCors(response[q])

\* C5: the body sent to the merchant-pay endpoint has the three correlation
\* fields equal to the empty string whatever the caller supplied, and every
\* other field the caller supplied unchanged.
C5_CorrelationFieldsEmptied ==
  \A r \in Reqs :
    \A i \in DOMAIN payCalls[r] :
      LET sent == payCalls[r][i].body
          given == bodyRead[r][1]
      IN  /\ sent.valid /\ sent.v.t = "obj"
          /\ given.valid /\ given.v.t = "obj"
          /\ \A k \in {"requestDate", "requestingOrganisationTransactionReference",
                       "originalTransactionReference"} :
               k \in DOMAIN sent.v.o /\ sent.v.o[k] = JStr("")
          /\ \A k \in DOMAIN given.v.o \ {"requestDate",
                                            "requestingOrganisationTransactionReference",
                                            "originalTransactionReference"} :
               k \in DOMAIN sent.v.o /\ sent.v.o[k] = given.v.o[k]

\* A call made for a request whose caller supplied the three fields.
C5_Witness ==
  \E r \in Reqs :
    /\ payCalls[r] # <<>>
    /\ "requestDate" \in DOMAIN bodyRead[r][1].v.o
    /\ bodyRead[r][1].v.o["requestDate"].s # ""
    /\ bodyRead[r][1].v.o["originalTransactionReference"].s # ""
    /\ payCalls[r][1].body.v.o["requestDate"].s = ""

\* The merchant-pay endpoint answered r with a body that is JSON.
ProviderAnswered(r) == payReplies[r][1].net /\ payReplies[r][1].body.valid

C7_Original ==
  \A r \in Reqs :
    (Done(r) /\ method[r] = "POST" /\ path[r] = "/webhook")
      => /\ response[r].status = 200
         /\ BodyIs(response[r], [received |-> JTrue])
         /\ tokenCalls[r] = <<>>
         /\ payCalls[r] = <<>>

\* C7, amended: every POST /webhook whose body is valid JSON, of any shape, is
\* answered 200 with {received: true}; a body that is not JSON is answered by
\* the top-level guard with 500; in both cases neither the token endpoint nor
\* the merchant-pay endpoint is called.
C7_WebhookAcknowledged ==
  \A r \in Reqs :
    (Done(r) /\ method[r] = "POST" /\ path[r] = "/webhook")
      => /\ bodyRead[r] # <<>>
         /\ IF bodyRead[r][1].valid
            THEN /\ response[r].status = 200
                 /\ BodyIs(response[r], [received |-> JTrue])
            ELSE /\ response[r].status = 500
                 /\ response[r].body.kind = "json"
                 /\ response[r].body.json.v.o["error"] = JStr("Internal server error")
         /\ tokenCalls[r] = <<>>
         /\ payCalls[r] = <<>>

\* A webhook carrying {} and one carrying null, both acknowledged.
C7_Witness ==
  \E r, q \in Reqs :
    /\ Done(r) /\ path[r] = "/webhook" /\ bodyRead[r] # <<>>
    /\ bodyRead[r][1].valid /\ bodyRead[r][1].v.t = "obj"
    /\ DOMAIN bodyRead[r][1].v.o = {}
    /\ response[r].status = 200
    /\ Done(q) /\ path[q] = "/webhook" /\ bodyRead[q] # <<>>
    /\ bodyRead[q][1].valid /\ bodyRead[q][1].v.t = "null"
    /\ response[q].status = 200

\* C8: an OPTIONS request to any path is answered at once with an empty body,
\* the CORS headers and a success status; its body is not read and neither the
\* token endpoint nor the merchant-pay endpoint is called.
C8_PreflightShortCircuits ==
  \A r \in Reqs :
    (pc[r] # "idle" /\ method[r] = "OPTIONS")
      => /\ Done(r)
         /\ response[r].body.kind = "null"
         /\ HasCors(response[r])
         /\ response[r].status >= 200 /\ response[r].status <= 299
         /\ bodyRead[r] = <<>>
         /\ tokenCalls[r] = <<>>
         /\ payCalls[r] = <<>>

C8_Witness ==
  \E r, q \in Reqs :
    /\ Done(r) /\ method[r] = "OPTIONS" /\ path[r] = "/payment"
    /\ Done(q) /\ method[q] = "OPTIONS" /\ path[q] = "/status"
    /\ response[r].status = 200 /\ response[q].status = 200

\* The body r read is a JSON object whose debit party is missing or empty.
NoDebitParty(r) ==
  /\ bodyRead[r][1].valid
  /\ bodyRead[r][1].v.t = "obj"
  /\ \/ "debitParty" \notin DOMAIN bodyRead[r][1].v.o
     \/ /\ bodyRead[r][1].v.o["debitParty"].t = "arr"
        /\ bodyRead[r][1].v.o["debitParty"].a = <<>>

\* The response is the one of the top-level guard.
IsGuardResponse(resp) ==
  /\ resp.status = 500
  /\ resp.body.kind = "json"
  /\ resp.body.json.valid
  /\ resp.body.json.v.t = "obj"
  /\ DOMAIN resp.body.json.v.o = {"error", "message"}
  /\ resp.body.json.v.o["error"] = JStr("Internal server error")

\* C9 as stated: on POST /payment a body that is not JSON and a payment
\* request without a first debit party both reach the top-level guard, which
\* answers 500 with {error: "Internal server error", message}.
C9_Original ==
  \A r \in Reqs :
    (Done(r) /\ path[r] = "/payment" /\ bodyRead[r] # <<>>
       /\ (~bodyRead[r][1].valid \/ NoDebitParty(r)))
      => IsGuardResponse(response[r])

\* C9, amended: on POST /payment, once authentication has succeeded, a body
\* that is not JSON reaches the top-level guard, which answers 500 with
\* {error: "Internal server error", message}; a payment request whose debit
\* party is missing or empty is caught by the payment initiator itself, so the
\* response is 500 with the synthesized result {status: 500, data: {error}},
\* and the merchant-pay endpoint is not called in either case.
C9_MalformedInput ==
  \A r \in Reqs :
    (pc[r] # "idle" /\ path[r] = "/payment" /\ bodyRead[r] # <<>>)
      => /\ ~bodyRead[r][1].valid =>
              Done(r) /\ IsGuardResponse(response[r]) /\ payCalls[r] = <<>>
         /\ NoDebitParty(r) =>
              /\ Done(r)
              /\ response[r].status = 500
              /\ response[r].body.kind = "json"
              /\ response[r].body.json.v.t = "obj"
              /\ DOMAIN response[r].body.json.v.o = {"status", "data"}
              /\ response[r].body.json.v.o["status"] = JNum(500)
              /\ DOMAIN response[r].body.json.v.o["data"].o = {"error"}
              /\ payCalls[r] = <<>>

\* Both kinds of malformed input, each answered.
C9_Witness ==
  \E r, q \in Reqs :
    /\ path[r] = "/payment" /\ bodyRead[r] # <<>> /\ ~bodyRead[r][1].valid
    /\ IsGuardResponse(response[r])
    /\ path[q] = "/payment" /\ bodyRead[q] # <<>> /\ NoDebitParty(q)
    /\ "debitParty" \in DOMAIN bodyRead[q][1].v.o
    /\ Done(q) /\ response[q].status = 500

\* C10: under any interleaving, a call to the merchant-pay endpoint made for a
\* request comes after that request's own authentication call has succeeded,
\* and its bearer token is the access token that call returned.
C10_OwnTokenAfterOwnAuth ==
  \A r \in Reqs :
    \A i \in DOMAIN payCalls[r] :
      /\ tokenCalls[r] # <<>>
      /\ tokenReplies[r] # <<>>
      /\ tokenReplies[r][1].net
      /\ tokenReplies[r][1].status >= 200 /\ tokenReplies[r][1].status <= 299
      /\ tokenReplies[r][1].body.valid
      /\ tokenReplies[r][1].body.v.t = "obj"
      /\ "access_token" \in DOMAIN tokenReplies[r][1].body.v.o
      /\ payCalls[r][i].headers.Authorization =
           [scheme |-> "Bearer",
            token |-> tokenReplies[r][1].body.v.o["access_token"].s]

\* Two requests in flight at once, each paying with its own, different token.
C10_Witness ==
  \E r, q \in Reqs :
    /\ pc[r] = "payWait" /\ pc[q] = "payWait"
    /\ payCalls[r][1].headers.Authorization.token
         # payCalls[q][1].headers.Authorization.token

====
